---- MODULE Spec2Model ----
(***************************************************************************)
(* Model of the modernfiction rewriting pipeline.                          *)
(*                                                                         *)
(*   rate_limiter.py     RateLimiter: semaphore + sliding rate window      *)
(*   transform_text.py   group_navigable_strings, transform_text           *)
(*   llm/*.py            should_transform, transform_content               *)
(*                                                                         *)
(* The specifications share the variables below:                          *)
(*   Spec           the concurrent document tasks sharing one RateLimiter  *)
(*   ExchangeSpec   Spec observing when each remote exchange starts        *)
(*   FairSpec       Spec without cancellation, every protected section     *)
(*                  ending after its first exchange, with the event        *)
(*                  loop's fairness: the liveness of acquire()             *)
(*   BatcherSpec    group_navigable_strings applied to drawn inputs        *)
(*   TransformSpec  transform_content run on one drawn batch               *)
(*   ShouldSpec     should_transform run on one drawn batch                *)
(*   DocumentSpec   transform_text on one document, unit contents tracked, *)
(*                  with the event loop's fairness                         *)
(*   EpubSpec       transform_epub: pre-scan, callbacks, gather, the tasks *)
(*                                                                         *)
(* The @retry decorators (retry package) wrap the call that creates the    *)
(* coroutine, not its execution: an exception raised while the coroutine   *)
(* is awaited is not retried.                                              *)
(*                                                                         *)
(* Text is a sequence of one-character strings.  A <p> tag is modelled by  *)
(* its inner text; get_text(strip=True) and decode_contents().strip() are  *)
(* both the whitespace-stripped inner text (no nested markup).             *)
(*                                                                         *)
(* Time is discrete.  The rate window stores, for each recorded call, its  *)
(* age now - timestamp, which is the only quantity the code reads          *)
(* (rate_limiter.py lines 28 and 38); ages are capped at window_size,      *)
(* beyond which the code treats all timestamps alike.  time.time() is      *)
(* taken to be non-decreasing.                                             *)
(***************************************************************************)
EXTENDS Integers, Sequences, FiniteSets, TLC

(* ------------------------------ bounds --------------------------------- *)
\* number of EpubHtml documents, one task each (transform_epub line 219)
NumDocs == 3
\* RateLimiter(calls_per_minute, max_parallel) constructor arguments
calls_per_minute == 1
max_parallel == 2
\* length of the rate window in ticks (one tick = 60 / window_size seconds)
window_size == 2
\* longest input sequence drawn for the Batcher
MaxUnits == 3
\* longest batch drawn for transform_content, and how many of its units
\* may be blank
MaxBatchLen == 11
MaxBlank == 2

(* --------------------------- program constants ------------------------- *)
CHUNK_SIZE == 10
\* faulty variant: one more retry is allowed
MaxAttemptFour == 3 + 1

\* transform_content retries a mismatched chunk while attempt < 3
MAX_ATTEMPT == 3

VARIABLES
    \* ---- concurrent pipeline ----
    pc,                 \* position of each document task
    batch_idx,          \* index of the batch the task is working on
    parallel_semaphore, \* value of RateLimiter.parallel_semaphore
    timestamps,         \* RateLimiter.timestamps, as ages, oldest first
    sleep_left,         \* remaining asyncio.sleep(wait_time) of each task
    provider,           \* provider of the transform_content call in progress
    attempt,            \* attempt argument of that call
    progress_lock,      \* holder of progress_lock, 0 when free
    progress,           \* sum of on_update_progress deltas per document
    issued,             \* history: ages of the timestamps acquire() recorded
    calls,              \* history: ages of the remote exchanges started
    woken,              \* history: the task slept in this acquire() already
    cancelled_in,       \* history: where a cancelled task was suspended
    \* ---- Batcher ----
    p_tags,             \* input of group_navigable_strings
    groups,             \* its result
    bpc,                \* "call" before, "returned" after
    \* ---- transform_content ----
    batch,              \* the paragraphs passed to the outermost call
    units,              \* their current contents
    t_lo, t_hi,         \* `paragraphs` of the running invocation: units t_lo..t_hi
    start_index,        \* start_index of its loop
    t_attempt,          \* its `attempt` argument
    t_provider,         \* its `provider` argument
    tpc,                \* "loop", "await", "returned" or "raised"
    ncalls,             \* history: number of requests posted so far
    accepted,           \* history: the responses whose count matched
    chunk_sends,        \* history: requests posted for the chunk in hand
    raised_by,          \* history: what made the call raise
    started,            \* history: providers of the calls made for the batch
    mismatch_failed,    \* history: the chunks given up after the last attempt
    \* ---- should_transform ----
    s_paragraphs,       \* the paragraphs passed to should_transform
    decisions,          \* what the provider answers for each chunk
    s_start_index,      \* start_index of its loop
    spc,                \* "loop", "await", "returned" or "raised"
    s_result,           \* the value returned
    decision,           \* history: what should_transform gave for the batch
                        \* process_paragraph_group has in hand
    \* ---- transform_epub ----
    epc,                \* position of transform_epub
    unreadable,         \* the items whose content cannot be read
    scan_idx,           \* next item of the pre-scan loop
    total_paragraphs,   \* total_paragraphs
    items_to_transform, \* items_to_transform, as document numbers
    init_calls,         \* history: calls of on_init_progress
    init_total,         \* history: the argument of the last one
    complete_calls,     \* history: calls of on_complete_progress
    completed,          \* the tasks whose result gather has collected, in
                        \* the order they finished
    new_book            \* the document items added to new_book

concVars == <<pc, batch_idx, parallel_semaphore, timestamps, sleep_left,
              provider, attempt, progress_lock, progress, issued, calls, woken,
              cancelled_in>>
batcherVars == <<p_tags, groups, bpc>>
transformVars == <<batch, units, t_lo, t_hi, start_index, t_attempt,
                   t_provider, tpc, ncalls, accepted, chunk_sends, raised_by,
                   started, mismatch_failed>>
shouldVars == <<s_paragraphs, decisions, s_start_index, spc, s_result,
                decision>>
orchVars == <<epc, unreadable, scan_idx, total_paragraphs, items_to_transform,
              init_calls, init_total, complete_calls, completed, new_book>>
vars == <<pc, batch_idx, parallel_semaphore, timestamps, sleep_left,
          provider, attempt, progress_lock, progress, issued, calls, woken,
          cancelled_in, p_tags, groups, bpc,
          batch, units, t_lo, t_hi, start_index, t_attempt, t_provider, tpc,
          ncalls, accepted, chunk_sends, raised_by, started, mismatch_failed,
          s_paragraphs, decisions, s_start_index, spc, s_result, decision,
          epc, unreadable, scan_idx, total_paragraphs, items_to_transform,
          init_calls, init_total, complete_calls, completed, new_book>>

Docs == 1..NumDocs

(* ------------------------------- text ---------------------------------- *)
Whitespace == {" "}

RECURSIVE lstrip(_)
lstrip(s) ==
    IF s = <<>> THEN <<>>
    ELSE IF Head(s) \in Whitespace THEN lstrip(Tail(s)) ELSE s

RECURSIVE rstrip(_)
rstrip(s) ==
    IF s = <<>> THEN <<>>
    ELSE IF s[Len(s)] \in Whitespace THEN rstrip(SubSeq(s, 1, Len(s) - 1))
    ELSE s

strip(s) == rstrip(lstrip(s))

\* p_tag.get_text(strip=True)
get_text(p_tag) == strip(p_tag)

\* faulty variant: the content is not stripped
inner_html_unstripped(p_tag) == p_tag

\* p_tag.decode_contents().strip()
inner_html(p_tag) == strip(p_tag)

(* ------------------------------ Batcher -------------------------------- *)
\* faulty variant: the boundary test reads the unstripped text
IsBoundaryUnstripped(p_tag) ==
    p_tag # <<>> /\ p_tag[Len(p_tag)] \in {".", "?", "!"}

\* `text and text[-1] in [".", "?", "!"]`
IsBoundary(p_tag) ==
    LET text == get_text(p_tag)
    IN  text # <<>> /\ text[Len(text)] \in {".", "?", "!"}

\* faulty variant: the leftover group is dropped
FlushDropped(gs, current_group) == gs

\* `if current_group: groups.append(current_group)`
Flush(gs, current_group) ==
    IF current_group # <<>> THEN Append(gs, current_group) ELSE gs

RECURSIVE GroupLoop(_, _, _, _)
GroupLoop(tags, i, gs, current_group) ==
    IF i > Len(tags) THEN Flush(gs, current_group)
    ELSE LET cur == Append(current_group, tags[i])
         IN  IF IsBoundary(tags[i])
             THEN GroupLoop(tags, i + 1, Append(gs, cur), <<>>)
             ELSE GroupLoop(tags, i + 1, gs, cur)

group_navigable_strings(tags) == GroupLoop(tags, 1, <<>>, <<>>)

\* inner texts the Batcher inputs are drawn from
Texts == { <<>>, <<" ">>, <<"a">>, <<"a", ".">>, <<"a", ".", " ">>,
           <<".", "a">>, <<" ", "?">>, <<"!">>, <<".", " ", "a", " ">> }

RECURSIVE SeqsUpTo(_, _)
SeqsUpTo(S, n) ==
    IF n = 0 THEN { <<>> }
    ELSE LET shorter == SeqsUpTo(S, n - 1)
         IN  shorter \cup { Append(s, x) : s \in shorter, x \in S }

RECURSIVE Concat(_)
Concat(ss) == IF ss = <<>> THEN <<>> ELSE Head(ss) \o Concat(Tail(ss))

BatcherIdle == p_tags = <<>> /\ groups = <<>> /\ bpc = "idle"

BatcherInit == p_tags \in SeqsUpTo(Texts, MaxUnits) /\ groups = <<>> /\ bpc = "call"

(* ------------------------- documents and batches ----------------------- *)
\* soup.find_all("p") of document d: a sentence then an open paragraph
\* (two batches), an open paragraph then a sentence (one batch), and for
\* every further document one blank paragraph
DocContent(d) ==
    CASE d = 1 -> << <<"a", ".">>, <<"b">> >>
      [] d = 2 -> << <<"b">>, <<"a", ".">> >>
      [] OTHER -> << <<" ">> >>

batches(d) == group_navigable_strings(DocContent(d))

\* number of units of a chunk that are sent (non-empty inner html)
meaningful_chunk_count(chunk) ==
    Cardinality({ i \in 1..Len(chunk) : inner_html(chunk[i]) # <<>> })

(* --------------------------- RateLimiter ------------------------------- *)
Min(a, b) == IF a < b THEN a ELSE b
Max(a, b) == IF a > b THEN a ELSE b

\* faulty variant: a timestamp is kept until it is strictly older than the window
IsOldStrict(age) == age > window_size

\* `(now - self.timestamps[0]) >= self.window_size`
IsOld(age) == age >= window_size

\* `while self.timestamps and ...: self.timestamps.popleft()`
RECURSIVE PopOld(_)
PopOld(ts) ==
    IF ts # <<>> /\ IsOld(Head(ts)) THEN PopOld(Tail(ts)) ELSE ts

\* faulty variant: the capacity test admits one call too many
HasRoomOffByOne(ts) == Len(ts) <= calls_per_minute

\* `len(self.timestamps) < self.calls_per_minute`
HasRoom(ts) == Len(ts) < calls_per_minute

\* faulty variant: no timestamp is recorded
recordNothing(ts) == ts

\* `self.timestamps.append(now)`: the new timestamp has age 0
record(ts) == Append(ts, 0)

\* faulty variant: the semaphore lets a task through at value 0
SemaphoreFreeAlways(value) == value >= 0

\* asyncio.Semaphore.acquire proceeds only while the value is positive
SemaphoreFree(value) == value > 0

\* faulty variant: release() forgets the semaphore
releaseLeak(value) == value

\* RateLimiter.release / __aexit__
release(value) == value + 1

\* faulty variant: acquire() does not undo the semaphore when the wait fails
AcquireExceptLeak(value) == value

\* the `except:` branch of RateLimiter.acquire
AcquireExcept(value) == value + 1

(* history of recent events: for each age below window_size, how many     *)
(* events have that age.  Once more than calls_per_minute events fall      *)
(* inside one window the history stays at Overflow.                        *)
Ages == 0..(window_size - 1)
NoEvents == [a \in Ages |-> 0]
Overflow == [a \in Ages |-> calls_per_minute + 1]

RECURSIVE SumUpTo(_, _)
SumUpTo(h, a) == IF a < 0 THEN 0 ELSE h[a] + SumUpTo(h, a - 1)
Recent(h) == SumUpTo(h, window_size - 1)

LogEvent(h) ==
    IF Recent(h) + 1 > calls_per_minute THEN Overflow
    ELSE [h EXCEPT ![0] = @ + 1]
ShiftEvents(h) ==
    IF h = Overflow THEN Overflow
    ELSE [a \in Ages |-> IF a = 0 THEN 0 ELSE h[a - 1]]

\* the history of the remote exchanges is kept only by ExchangeSpec;
\* elsewhere it stays Unobserved
Unobserved == [a \in Ages |-> -1]
LogExchange(h) == IF h = Unobserved THEN h ELSE LogEvent(h)
ShiftExchanges(h) == IF h = Unobserved THEN h ELSE ShiftEvents(h)

(* tasks that hold a concurrency slot: inside acquire() after the          *)
(* semaphore, or inside the `async with rate_limiter` body                 *)
InWindowWait == {"wait_for_slot", "sleep"}
InBody == {"decide", "transform"}
Holders == { t \in Docs : pc[t] \in InWindowWait \cup InBody }
Terminal == {"done", "failed", "cancelled"}

ConcIdle ==
    /\ pc = [t \in Docs |-> "done"]
    /\ batch_idx = [t \in Docs |-> 1]
    /\ parallel_semaphore = max_parallel
    /\ timestamps = <<>>
    /\ sleep_left = [t \in Docs |-> 0]
    /\ provider = [t \in Docs |-> "primary"]
    /\ attempt = [t \in Docs |-> 0]
    /\ progress_lock = 0
    /\ progress = [t \in Docs |-> 0]
    /\ issued = NoEvents
    /\ calls = NoEvents
    /\ woken = [t \in Docs |-> FALSE]
    /\ cancelled_in = [t \in Docs |-> "none"]

\* RateLimiter.__init__ and the tasks transform_epub creates
ConcInit(history) ==
    /\ pc = [t \in Docs |-> "acquire"]
    /\ batch_idx = [t \in Docs |-> 1]
    /\ parallel_semaphore = max_parallel
    /\ timestamps = <<>>
    /\ sleep_left = [t \in Docs |-> 0]
    /\ provider = [t \in Docs |-> "primary"]
    /\ attempt = [t \in Docs |-> 0]
    /\ progress_lock = 0
    /\ progress = [t \in Docs |-> 0]
    /\ issued = NoEvents
    /\ calls = history
    /\ woken = [t \in Docs |-> FALSE]
    /\ cancelled_in = [t \in Docs |-> "none"]

\* faulty variant: only the units that are sent count as the batch
CurrentBatchMeaningful(t) ==
    SelectSeq(batches(t)[batch_idx[t]], LAMBDA u : inner_html(u) # <<>>)

\* `batch` of the loop `for batch in batches`
CurrentBatch(t) == batches(t)[batch_idx[t]]

\* `await self.parallel_semaphore.acquire()`
AcquireSemaphore(t) ==
    /\ pc[t] = "acquire"
    /\ SemaphoreFree(parallel_semaphore)
    /\ parallel_semaphore' = parallel_semaphore - 1
    /\ pc' = [pc EXCEPT ![t] = "wait_for_slot"]
    /\ UNCHANGED <<batch_idx, timestamps, sleep_left, provider, attempt,
                   progress_lock, progress, issued, calls, woken>>
    /\ UNCHANGED <<cancelled_in, p_tags, groups, bpc>>
    /\ UNCHANGED transformVars
    /\ UNCHANGED shouldVars
    /\ UNCHANGED orchVars

\* one iteration of the loop of _wait_for_slot; when the window has room
\* acquire() returns and should_transform posts its request
WaitForSlot(t) ==
    /\ pc[t] = "wait_for_slot"
    /\ LET pruned == PopOld(timestamps)
       IN  IF HasRoom(pruned)
           THEN /\ timestamps' = record(pruned)
                /\ issued' = LogEvent(issued)
                /\ calls' = LogExchange(calls)
                /\ pc' = [pc EXCEPT ![t] = "decide"]
                /\ woken' = [woken EXCEPT ![t] = FALSE]
                /\ UNCHANGED sleep_left
           ELSE /\ timestamps' = pruned
                /\ sleep_left' = [sleep_left EXCEPT ![t] = window_size - pruned[1]]
                /\ pc' = [pc EXCEPT ![t] = "sleep"]
                /\ UNCHANGED <<issued, calls, woken>>
    /\ UNCHANGED <<batch_idx, parallel_semaphore, provider, attempt,
                   progress_lock, progress>>
    /\ UNCHANGED <<cancelled_in, p_tags, groups, bpc>>
    /\ UNCHANGED transformVars
    /\ UNCHANGED shouldVars
    /\ UNCHANGED orchVars

\* asyncio.sleep(wait_time) is over; the loop re-checks
Wake(t) ==
    /\ pc[t] = "sleep"
    /\ sleep_left[t] = 0
    /\ pc' = [pc EXCEPT ![t] = "wait_for_slot"]
    /\ woken' = [woken EXCEPT ![t] = TRUE]
    /\ UNCHANGED <<batch_idx, parallel_semaphore, timestamps, sleep_left,
                   provider, attempt, progress_lock, progress, issued, calls>>
    /\ UNCHANGED <<cancelled_in, p_tags, groups, bpc>>
    /\ UNCHANGED transformVars
    /\ UNCHANGED shouldVars
    /\ UNCHANGED orchVars

\* the clock advances by one tick
Tick ==
    /\ timestamps' = [i \in DOMAIN timestamps |-> Min(timestamps[i] + 1, window_size)]
    /\ sleep_left' = [t \in Docs |-> Max(sleep_left[t] - 1, 0)]
    /\ issued' = ShiftEvents(issued)
    /\ calls' = ShiftExchanges(calls)
    /\ UNCHANGED <<pc, batch_idx, parallel_semaphore, provider, attempt,
                   progress_lock, progress, woken>>
    /\ UNCHANGED <<cancelled_in, p_tags, groups, bpc>>
    /\ UNCHANGED transformVars
    /\ UNCHANGED shouldVars
    /\ UNCHANGED orchVars

(* -------------------------- transform_content -------------------------- *)
(* A unit is [html, call, idx]: its inner html and, once replaced, the     *)
(* number of the exchange and the position in its response the content     *)
(* comes from (call = 0: the original content).  Replacement strings are   *)
(* taken to be non-empty.                                                  *)
Original(html) == [html |-> html, call |-> 0, idx |-> 0]
Replacement(c, i) == [html |-> <<"r">>, call |-> c, idx |-> i]

\* units lo..hi whose inner html is non-empty, in order
RECURSIVE MeaningfulIn(_, _, _)
MeaningfulIn(us, lo, hi) ==
    IF lo > hi THEN <<>>
    ELSE IF inner_html(us[lo].html) # <<>>
         THEN <<lo>> \o MeaningfulIn(us, lo + 1, hi)
         ELSE MeaningfulIn(us, lo + 1, hi)

\* faulty variant: the index also counts the blank units passed over
IndexOfFromFirst(s, x) == x - s[1] + 1

\* position of x in the sequence s of distinct elements
IndexOf(s, x) == CHOOSE k \in 1..Len(s) : s[k] = x

\* batches of length 1..MaxBatchLen with at most MaxBlank blank units
DrawnBatches ==
    { [i \in 1..n |-> IF i \in blank THEN Original(<<" ">>) ELSE Original(<<"x">>)] :
        n \in 1..MaxBatchLen,
        blank \in { b \in SUBSET (1..MaxBatchLen) : Cardinality(b) <= MaxBlank } }

TransformIdle ==
    /\ batch = <<>>
    /\ units = <<>>
    /\ t_lo = 1
    /\ t_hi = 0
    /\ start_index = 0
    /\ t_attempt = 0
    /\ t_provider = "primary"
    /\ tpc = "idle"
    /\ ncalls = 0
    /\ accepted = {}
    /\ chunk_sends = 0
    /\ raised_by = "none"
    /\ started = <<>>
    /\ mismatch_failed = {}

\* transform_content(paragraphs=batch) is called with attempt = 0
TransformInit ==
    /\ batch \in DrawnBatches
    /\ units = batch
    /\ t_lo = 1
    /\ t_hi = Len(batch)
    /\ start_index = 0
    /\ t_attempt = 0
    /\ t_provider = "primary"
    /\ tpc = "loop"
    /\ ncalls = 0
    /\ accepted = {}
    /\ chunk_sends = 0
    /\ raised_by = "none"
    /\ started = <<"primary">>
    /\ mismatch_failed = {}

\* `chunk = paragraphs[start_index : start_index + CHUNK_SIZE]`
ChunkLo == t_lo + start_index
ChunkHi == Min(t_lo + start_index + CHUNK_SIZE - 1, t_hi)

\* one pass of `for start_index in range(0, len(paragraphs), CHUNK_SIZE)` up
\* to the request: the loop is over and the call returns, the chunk has
\* nothing to send and is skipped, or its request is posted
TransformLoop ==
    /\ tpc = "loop"
    /\ IF ChunkLo > t_hi
       THEN /\ tpc' = "returned"
            /\ UNCHANGED <<start_index, ncalls, chunk_sends>>
       ELSE IF MeaningfulIn(units, ChunkLo, ChunkHi) = <<>>
       THEN /\ start_index' = start_index + CHUNK_SIZE
            /\ UNCHANGED <<tpc, ncalls, chunk_sends>>
       ELSE /\ tpc' = "await"
            /\ ncalls' = ncalls + 1
            /\ chunk_sends' = chunk_sends + 1
            /\ UNCHANGED start_index
    /\ UNCHANGED <<batch, units, t_lo, t_hi, t_attempt, t_provider, accepted,
                   raised_by, started, mismatch_failed>>
    /\ UNCHANGED concVars
    /\ UNCHANGED batcherVars
    /\ UNCHANGED shouldVars
    /\ UNCHANGED orchVars

\* numbers of <string> items a response to n sent items may carry
ResponseCounts(n) == { k \in {n - 1, n, n + 1} : k >= 0 }

\* the exchange fails: no parseable content, transport error or timeout
TransformRaise ==
    /\ tpc = "await"
    /\ tpc' = "raised"
    /\ raised_by' = "exchange"
    /\ UNCHANGED <<batch, units, t_lo, t_hi, start_index, t_attempt,
                   t_provider, ncalls, accepted, chunk_sends, started,
                   mismatch_failed>>
    /\ UNCHANGED concVars
    /\ UNCHANGED batcherVars
    /\ UNCHANGED shouldVars
    /\ UNCHANGED orchVars

\* a response with k items arrives for the chunk
TransformResponse(k) ==
    /\ tpc = "await"
    /\ LET sent == MeaningfulIn(units, ChunkLo, ChunkHi)
       IN  /\ k \in ResponseCounts(Len(sent))
           /\ IF k # Len(sent) /\ t_attempt < MAX_ATTEMPT
              THEN \* `return await transform_content(paragraphs=chunk,
                   \*  attempt=attempt + 1, ...)`
                   /\ t_lo' = ChunkLo
                   /\ t_hi' = ChunkHi
                   /\ start_index' = 0
                   /\ t_attempt' = t_attempt + 1
                   /\ tpc' = "loop"
                   /\ UNCHANGED <<units, accepted, chunk_sends, raised_by,
                                  mismatch_failed>>
              ELSE IF k # Len(sent) /\ t_attempt >= MAX_ATTEMPT
              THEN /\ tpc' = "raised"
                   /\ raised_by' = "mismatch"
                   /\ mismatch_failed' = mismatch_failed \cup
                          {[lo |-> ChunkLo, hi |-> ChunkHi,
                            provider |-> t_provider]}
                   /\ UNCHANGED <<units, t_lo, t_hi, start_index, t_attempt,
                                  accepted, chunk_sends>>
              ELSE \* the i-th non-empty unit takes the i-th item
                   /\ units' = [j \in 1..Len(units) |->
                                  IF \E m \in 1..Len(sent) : sent[m] = j
                                  THEN Replacement(ncalls, IndexOf(sent, j))
                                  ELSE units[j]]
                   /\ accepted' = accepted \cup
                                    {[call |-> ncalls, lo |-> ChunkLo, hi |-> ChunkHi,
                                      sends |-> chunk_sends, items |-> k,
                                      provider |-> t_provider]}
                   /\ start_index' = start_index + CHUNK_SIZE
                   /\ chunk_sends' = 0
                   /\ tpc' = "loop"
                   /\ UNCHANGED <<t_lo, t_hi, t_attempt, raised_by,
                                  mismatch_failed>>
    /\ UNCHANGED <<batch, t_provider, ncalls, started>>
    /\ UNCHANGED concVars
    /\ UNCHANGED batcherVars
    /\ UNCHANGED shouldVars
    /\ UNCHANGED orchVars

(* --------------------------- should_transform -------------------------- *)
\* values of extract_tag(val, "should_transform"); "raise" is a failed
\* exchange (transport error, timeout, unparseable envelope)
DecideOutcomes == {"true", "false", "other", "raise"}

\* number of chunks of a batch of n paragraphs
NumChunks(n) == (n + CHUNK_SIZE - 1) \div CHUNK_SIZE

ShouldIdle ==
    /\ s_paragraphs = <<>>
    /\ decisions = <<>>
    /\ s_start_index = 0
    /\ spc = "idle"
    /\ s_result = "pending"
    /\ decision = "none"

\* should_transform(paragraphs=batch) is called; the provider's answer for
\* each chunk of the batch is fixed beforehand
ShouldInit ==
    /\ s_paragraphs \in DrawnBatches
    /\ decisions \in [1..NumChunks(Len(s_paragraphs)) -> DecideOutcomes]
    /\ s_start_index = 0
    /\ spc = "loop"
    /\ s_result = "pending"
    /\ decision = "none"

\* `for start_index in range(0, len(paragraphs), CHUNK_SIZE)`: the request
\* for the chunk is posted (blank units are sent too), or the range is
\* exhausted and the function falls off its end
ShouldLoop ==
    /\ spc = "loop"
    /\ IF s_start_index >= Len(s_paragraphs)
       THEN /\ spc' = "returned"
            /\ s_result' = "None"
       ELSE /\ spc' = "await"
            /\ UNCHANGED s_result
    /\ UNCHANGED <<s_paragraphs, decisions, s_start_index, decision>>
    /\ UNCHANGED concVars
    /\ UNCHANGED batcherVars
    /\ UNCHANGED transformVars
    /\ UNCHANGED orchVars

\* the answer for the chunk arrives: every branch leaves the function
\* (lines 165-170 return inside the loop body)
ShouldResponse ==
    /\ spc = "await"
    /\ LET should_transform == decisions[(s_start_index \div CHUNK_SIZE) + 1]
       IN  CASE should_transform = "raise" -> /\ spc' = "raised"
                                              /\ UNCHANGED s_result
             [] should_transform = "true"  -> /\ spc' = "returned"
                                              /\ s_result' = "True"
             [] should_transform = "false" -> /\ spc' = "returned"
                                              /\ s_result' = "False"
             [] OTHER                      -> /\ spc' = "returned"
                                              /\ s_result' = "True"
    /\ UNCHANGED <<s_paragraphs, decisions, s_start_index, decision>>
    /\ UNCHANGED concVars
    /\ UNCHANGED batcherVars
    /\ UNCHANGED transformVars
    /\ UNCHANGED orchVars

(* ---------------------------- transform_epub --------------------------- *)
\* faulty variant: the pre-scan counts only the paragraphs with text
CountParagraphsMeaningful(d) == meaningful_chunk_count(DocContent(d))

\* `len(p_tags)` of document d
CountParagraphs(d) == Len(DocContent(d))

\* sum of the paragraph counts of a sequence of documents
RECURSIVE TotalOf(_)
TotalOf(items) ==
    IF items = <<>> THEN 0
    ELSE CountParagraphs(Head(items)) + TotalOf(Tail(items))

AllItems == [d \in Docs |-> d]

OrchIdle ==
    /\ epc = "idle"
    /\ unreadable = {}
    /\ scan_idx = 1
    /\ total_paragraphs = 0
    /\ items_to_transform = <<>>
    /\ init_calls = 0
    /\ init_total = 0
    /\ complete_calls = 0
    /\ completed = <<>>
    /\ new_book = <<>>

\* transform_epub has read every item, called on_init_progress, created
\* the tasks and waits in asyncio.gather
OrchRunning ==
    /\ epc = "gather"
    /\ unreadable = {}
    /\ scan_idx = NumDocs + 1
    /\ total_paragraphs = TotalOf(AllItems)
    /\ items_to_transform = AllItems
    /\ init_calls = 1
    /\ init_total = TotalOf(AllItems)
    /\ complete_calls = 0
    /\ completed = <<>>
    /\ new_book = <<>>

(* ------------------- process_paragraph_group body ---------------------- *)
(* Every batch of DocContent has at most CHUNK_SIZE units, so each         *)
(* should_transform / transform_content call here has a single chunk.      *)

\* the `async with rate_limiter` block is left (return or exception):
\* __aexit__ releases the slot and the task goes on at position `next`
\* (the locals provider and attempt of transform_content are gone)
ExitBody(t, next) ==
    /\ parallel_semaphore' = release(parallel_semaphore)
    /\ pc' = [pc EXCEPT ![t] = next]
    /\ provider' = [provider EXCEPT ![t] = "primary"]
    /\ attempt' = [attempt EXCEPT ![t] = 0]

\* transform_content(provider=p) is entered with attempt 0: a chunk with no
\* non-empty unit is skipped, otherwise its request is posted
StartTransform(t, p) ==
    IF meaningful_chunk_count(CurrentBatch(t)) = 0
    THEN /\ ExitBody(t, "update")
         /\ UNCHANGED calls
    ELSE /\ pc' = [pc EXCEPT ![t] = "transform"]
         /\ provider' = [provider EXCEPT ![t] = p]
         /\ attempt' = [attempt EXCEPT ![t] = 0]
         /\ calls' = LogExchange(calls)
         /\ UNCHANGED parallel_semaphore

\* the response of the should_transform request arrives
DecideResponse(t, r) ==
    /\ pc[t] = "decide"
    /\ CASE r = "raise" -> /\ ExitBody(t, "failed")
                           /\ UNCHANGED calls
         [] r = "false" -> /\ ExitBody(t, "update")
                           /\ UNCHANGED calls
         [] OTHER       -> StartTransform(t, "primary")
    /\ UNCHANGED <<batch_idx, timestamps, sleep_left, progress_lock,
                   progress, issued, woken>>
    /\ UNCHANGED <<cancelled_in, p_tags, groups, bpc>>
    /\ UNCHANGED transformVars
    /\ UNCHANGED shouldVars
    /\ UNCHANGED orchVars

\* "match": as many <string> items as sent; "mismatch": another number;
\* "raise": a failed exchange
RewriteOutcomes == {"match", "mismatch", "raise"}

\* the response of a transform_content request arrives
RewriteResponse(t, r) ==
    /\ pc[t] = "transform"
    /\ IF r = "match"
       THEN /\ ExitBody(t, "update")
            /\ UNCHANGED calls
       ELSE IF r = "mismatch" /\ attempt[t] < MAX_ATTEMPT
       THEN /\ attempt' = [attempt EXCEPT ![t] = @ + 1]
            /\ calls' = LogExchange(calls)
            /\ UNCHANGED <<pc, parallel_semaphore, provider>>
       ELSE IF provider[t] = "primary"
       THEN StartTransform(t, "secondary")
       ELSE /\ ExitBody(t, "failed")
            /\ UNCHANGED calls
    /\ UNCHANGED <<batch_idx, timestamps, sleep_left, progress_lock,
                   progress, issued, woken>>
    /\ UNCHANGED <<cancelled_in, p_tags, groups, bpc>>
    /\ UNCHANGED transformVars
    /\ UNCHANGED shouldVars
    /\ UNCHANGED orchVars

(* --------------------------- transform_text ---------------------------- *)
\* faulty variant: the update is not awaited, the loop goes on to the next
\* batch before it is recorded
EnterUpdateNotAwaited(t) ==
    /\ pc[t] = "update"
    /\ IF batch_idx[t] < Len(batches(t))
       THEN /\ batch_idx' = [batch_idx EXCEPT ![t] = @ + 1]
            /\ pc' = [pc EXCEPT ![t] = "acquire"]
       ELSE /\ pc' = [pc EXCEPT ![t] = "done"]
            /\ UNCHANGED batch_idx
    /\ UNCHANGED <<parallel_semaphore, timestamps, sleep_left, provider,
                   attempt, progress_lock, progress, issued, calls, woken>>
    /\ UNCHANGED <<cancelled_in, p_tags, groups, bpc>>
    /\ UNCHANGED transformVars
    /\ UNCHANGED shouldVars
    /\ UNCHANGED orchVars

\* faulty variant: on_update_progress is entered without waiting for the
\* progress lock
EnterUpdateUnlocked(t) ==
    /\ pc[t] = "update"
    /\ progress_lock' = t
    /\ progress' = [progress EXCEPT ![t] = @ + Len(CurrentBatch(t))]
    /\ pc' = [pc EXCEPT ![t] = "in_update"]
    /\ UNCHANGED <<batch_idx, parallel_semaphore, timestamps, sleep_left,
                   provider, attempt, issued, calls, woken>>
    /\ UNCHANGED <<cancelled_in, p_tags, groups, bpc>>
    /\ UNCHANGED transformVars
    /\ UNCHANGED shouldVars
    /\ UNCHANGED orchVars

\* `async with progress_lock: await on_update_progress(len(batch))` starts
EnterUpdate(t) ==
    /\ pc[t] = "update"
    /\ progress_lock = 0
    /\ progress_lock' = t
    /\ progress' = [progress EXCEPT ![t] = @ + Len(CurrentBatch(t))]
    /\ pc' = [pc EXCEPT ![t] = "in_update"]
    /\ UNCHANGED <<batch_idx, parallel_semaphore, timestamps, sleep_left,
                   provider, attempt, issued, calls, woken>>
    /\ UNCHANGED <<cancelled_in, p_tags, groups, bpc>>
    /\ UNCHANGED transformVars
    /\ UNCHANGED shouldVars
    /\ UNCHANGED orchVars

\* faulty variant: the progress lock is not released when the callback
\* has returned
ExitUpdateLockKept(t) ==
    /\ pc[t] = "in_update"
    /\ IF batch_idx[t] < Len(batches(t))
       THEN /\ batch_idx' = [batch_idx EXCEPT ![t] = @ + 1]
            /\ pc' = [pc EXCEPT ![t] = "acquire"]
       ELSE /\ pc' = [pc EXCEPT ![t] = "done"]
            /\ UNCHANGED batch_idx
    /\ UNCHANGED <<parallel_semaphore, timestamps, sleep_left, provider,
                   attempt, progress_lock, progress, issued, calls, woken>>
    /\ UNCHANGED <<cancelled_in, p_tags, groups, bpc>>
    /\ UNCHANGED transformVars
    /\ UNCHANGED shouldVars
    /\ UNCHANGED orchVars

\* on_update_progress returned; the loop goes to the next batch
ExitUpdate(t) ==
    /\ pc[t] = "in_update"
    /\ progress_lock' = 0
    /\ IF batch_idx[t] < Len(batches(t))
       THEN /\ batch_idx' = [batch_idx EXCEPT ![t] = @ + 1]
            /\ pc' = [pc EXCEPT ![t] = "acquire"]
       ELSE /\ pc' = [pc EXCEPT ![t] = "done"]
            /\ UNCHANGED batch_idx
    /\ UNCHANGED <<parallel_semaphore, timestamps, sleep_left, provider,
                   attempt, progress, issued, calls, woken>>
    /\ UNCHANGED <<cancelled_in, p_tags, groups, bpc>>
    /\ UNCHANGED transformVars
    /\ UNCHANGED shouldVars
    /\ UNCHANGED orchVars

\* the task is cancelled at the await it is suspended in
Cancel(t) ==
    /\ pc[t] \notin Terminal
    /\ pc' = [pc EXCEPT ![t] = "cancelled"]
    /\ parallel_semaphore' =
         IF pc[t] \in InWindowWait THEN AcquireExcept(parallel_semaphore)
         ELSE IF pc[t] \in InBody THEN release(parallel_semaphore)
         ELSE parallel_semaphore
    /\ progress_lock' = IF pc[t] = "in_update" THEN 0 ELSE progress_lock
    /\ sleep_left' = [sleep_left EXCEPT ![t] = 0]
    /\ provider' = [provider EXCEPT ![t] = "primary"]
    /\ attempt' = [attempt EXCEPT ![t] = 0]
    /\ woken' = [woken EXCEPT ![t] = FALSE]
    /\ cancelled_in' = [cancelled_in EXCEPT ![t] =
                          IF pc[t] = "acquire" THEN "semaphore"
                          ELSE IF pc[t] \in InWindowWait THEN "window"
                          ELSE "other"]
    /\ UNCHANGED <<batch_idx, timestamps, progress, issued, calls>>
    /\ UNCHANGED batcherVars
    /\ UNCHANGED transformVars
    /\ UNCHANGED shouldVars
    /\ UNCHANGED orchVars

Init ==
    /\ ConcInit(Unobserved)
    /\ BatcherIdle /\ TransformIdle /\ ShouldIdle /\ OrchRunning

Next ==
    \/ \E t \in Docs : AcquireSemaphore(t)
    \/ \E t \in Docs : WaitForSlot(t)
    \/ \E t \in Docs : Wake(t)
    \/ \E t \in Docs, r \in DecideOutcomes : DecideResponse(t, r)
    \/ \E t \in Docs, r \in RewriteOutcomes : RewriteResponse(t, r)
    \/ \E t \in Docs : EnterUpdate(t)
    \/ \E t \in Docs : ExitUpdate(t)
    \/ \E t \in Docs : Cancel(t)
    \/ Tick

Spec == Init /\ [][Next]_vars

(* --------------------------- ExchangeSpec ------------------------------ *)
(* Spec with the history of the remote exchanges switched on.              *)
ExchangeInit ==
    /\ ConcInit(NoEvents)
    /\ BatcherIdle /\ TransformIdle /\ ShouldIdle /\ OrchRunning

ExchangeSpec == ExchangeInit /\ [][Next]_vars

(* --------------------------- BatcherSpec ------------------------------- *)
BatcherCall ==
    /\ bpc = "call"
    /\ groups' = group_navigable_strings(p_tags)
    /\ bpc' = "returned"
    /\ UNCHANGED p_tags
    /\ UNCHANGED concVars
    /\ UNCHANGED transformVars
    /\ UNCHANGED shouldVars
    /\ UNCHANGED orchVars

BatcherSpecInit ==
    BatcherInit /\ ConcIdle /\ TransformIdle /\ ShouldIdle /\ OrchIdle

BatcherNext == BatcherCall

BatcherSpec == BatcherSpecInit /\ [][BatcherNext]_vars

(* -------------------------- TransformSpec ------------------------------ *)
TransformSpecInit ==
    TransformInit /\ ConcIdle /\ BatcherIdle /\ ShouldIdle /\ OrchIdle

TransformNext ==
    \/ TransformLoop
    \/ TransformRaise
    \/ \E k \in 0..(CHUNK_SIZE + 1) : TransformResponse(k)

TransformSpec == TransformSpecInit /\ [][TransformNext]_vars

(* --------------------------- DocumentSpec ------------------------------ *)
(* transform_text run by one task on one document, the content of each     *)
(* unit tracked: process_paragraph_group drives the transform_content      *)
(* model above, first with the primary provider and, when that raises,     *)
(* with the fixed secondary one.  No cancellation.                         *)
TheDoc == 1

\* soup.find_all("p") of that document: a batch of more than one chunk
\* with a blank unit, closed by a sentence end, then one more unit
LongContent ==
    [i \in 1..(MaxBatchLen + 1) |->
        IF i = 2 THEN <<" ">>
        ELSE IF i = MaxBatchLen THEN <<"a", ".">>
        ELSE <<"a">>]

LongBatches == group_navigable_strings(LongContent)

LongBatch == LongBatches[batch_idx[TheDoc]]

DocumentInit ==
    /\ pc = [t \in Docs |-> IF t = TheDoc THEN "acquire" ELSE "done"]
    /\ batch_idx = [t \in Docs |-> 1]
    /\ parallel_semaphore = max_parallel
    /\ timestamps = <<>>
    /\ sleep_left = [t \in Docs |-> 0]
    /\ provider = [t \in Docs |-> "primary"]
    /\ attempt = [t \in Docs |-> 0]
    /\ progress_lock = 0
    /\ progress = [t \in Docs |-> 0]
    /\ issued = NoEvents
    /\ calls = Unobserved
    /\ woken = [t \in Docs |-> FALSE]
    /\ cancelled_in = [t \in Docs |-> "none"]
    /\ BatcherIdle /\ TransformIdle /\ ShouldIdle /\ OrchIdle

\* transform_content(provider=p, paragraphs=batch) is entered: attempt is
\* 0, the loop starts at the first chunk, the units are as they are now
CallTransform(p, us) ==
    /\ units' = us
    /\ t_lo' = 1
    /\ t_hi' = Len(us)
    /\ start_index' = 0
    /\ t_attempt' = 0
    /\ t_provider' = p
    /\ tpc' = "loop"
    /\ chunk_sends' = 0
    /\ raised_by' = "none"
    /\ started' = Append(started, p)

\* no transform_content call is in progress any more
TransformReset ==
    /\ batch' = <<>>
    /\ units' = <<>>
    /\ t_lo' = 1
    /\ t_hi' = 0
    /\ start_index' = 0
    /\ t_attempt' = 0
    /\ t_provider' = "primary"
    /\ tpc' = "idle"
    /\ ncalls' = 0
    /\ accepted' = {}
    /\ chunk_sends' = 0
    /\ raised_by' = "none"
    /\ started' = <<>>
    /\ mismatch_failed' = {}

\* faulty variant: the should_transform call stands inside the try block,
\* its error starts the fallback call
DocDecideInsideTry(r) ==
    /\ pc[TheDoc] = "decide"
    /\ decision' = r
    /\ CASE r = "false" -> /\ ExitBody(TheDoc, "update")
                           /\ UNCHANGED transformVars
         [] OTHER       -> /\ pc' = [pc EXCEPT ![TheDoc] = "transform"]
                           /\ batch' = [i \in 1..Len(LongBatch) |-> Original(LongBatch[i])]
                           /\ CallTransform(IF r = "raise" THEN "secondary"
                                                           ELSE "primary", batch')
                           /\ UNCHANGED <<parallel_semaphore, provider, attempt,
                                          ncalls, accepted, mismatch_failed>>
    /\ UNCHANGED <<batch_idx, timestamps, sleep_left, progress_lock,
                   progress, issued, calls, woken, cancelled_in>>
    /\ UNCHANGED batcherVars
    /\ UNCHANGED <<s_paragraphs, decisions, s_start_index, spc, s_result>>
    /\ UNCHANGED orchVars

\* the answer of should_transform arrives (its request was posted when
\* acquire() returned)
DocDecide(r) ==
    /\ pc[TheDoc] = "decide"
    /\ decision' = r
    /\ CASE r = "raise" -> /\ ExitBody(TheDoc, "failed")
                           /\ UNCHANGED transformVars
         [] r = "false" -> /\ ExitBody(TheDoc, "update")
                           /\ UNCHANGED transformVars
         [] OTHER       -> /\ pc' = [pc EXCEPT ![TheDoc] = "transform"]
                           /\ batch' = [i \in 1..Len(LongBatch) |-> Original(LongBatch[i])]
                           /\ CallTransform("primary", batch')
                           /\ UNCHANGED <<parallel_semaphore, provider, attempt,
                                          ncalls, accepted, mismatch_failed>>
    /\ UNCHANGED <<batch_idx, timestamps, sleep_left, progress_lock,
                   progress, issued, calls, woken, cancelled_in>>
    /\ UNCHANGED batcherVars
    /\ UNCHANGED <<s_paragraphs, decisions, s_start_index, spc, s_result>>
    /\ UNCHANGED orchVars

\* faulty variant: there is no except branch, the error of the primary
\* call leaves the block
DocFallbackMissing ==
    /\ pc[TheDoc] = "transform"
    /\ tpc = "raised"
    /\ t_provider = "primary"
    /\ ExitBody(TheDoc, "failed")
    /\ UNCHANGED <<batch_idx, timestamps, sleep_left, progress_lock,
                   progress, issued, calls, woken, cancelled_in>>
    /\ UNCHANGED transformVars
    /\ UNCHANGED batcherVars
    /\ UNCHANGED shouldVars
    /\ UNCHANGED orchVars

\* faulty variant: the except branch calls the same provider again
DocFallbackSameProvider ==
    /\ pc[TheDoc] = "transform"
    /\ tpc = "raised"
    /\ t_provider = "primary"
    /\ Len(started) = 1
    /\ CallTransform("primary", units)
    /\ UNCHANGED <<batch, ncalls, accepted, mismatch_failed>>
    /\ UNCHANGED concVars
    /\ UNCHANGED batcherVars
    /\ UNCHANGED shouldVars
    /\ UNCHANGED orchVars

\* `except Exception: await transform_content(provider="together", ...)`:
\* the primary call raised, the same paragraphs go to the secondary
DocFallback ==
    /\ pc[TheDoc] = "transform"
    /\ tpc = "raised"
    /\ t_provider = "primary"
    /\ CallTransform("secondary", units)
    /\ UNCHANGED <<batch, ncalls, accepted, mismatch_failed>>
    /\ UNCHANGED concVars
    /\ UNCHANGED batcherVars
    /\ UNCHANGED shouldVars
    /\ UNCHANGED orchVars

\* faulty variant: after a successful fallback the error of the primary
\* call is raised again
DocTransformReturnReraise ==
    /\ pc[TheDoc] = "transform"
    /\ tpc = "returned"
    /\ ExitBody(TheDoc, IF Len(started) > 1 THEN "failed" ELSE "update")
    /\ UNCHANGED <<batch_idx, timestamps, sleep_left, progress_lock,
                   progress, issued, calls, woken, cancelled_in>>
    /\ UNCHANGED transformVars
    /\ UNCHANGED batcherVars
    /\ UNCHANGED shouldVars
    /\ UNCHANGED orchVars

\* the transform_content call in progress returned: the block is left
DocTransformReturn ==
    /\ pc[TheDoc] = "transform"
    /\ tpc = "returned"
    /\ ExitBody(TheDoc, "update")
    /\ UNCHANGED <<batch_idx, timestamps, sleep_left, progress_lock,
                   progress, issued, calls, woken, cancelled_in>>
    /\ UNCHANGED transformVars
    /\ UNCHANGED batcherVars
    /\ UNCHANGED shouldVars
    /\ UNCHANGED orchVars

\* the secondary call raised inside the except branch: the error leaves
\* process_paragraph_group and transform_text
DocTransformFail ==
    /\ pc[TheDoc] = "transform"
    /\ tpc = "raised"
    /\ t_provider = "secondary"
    /\ ExitBody(TheDoc, "failed")
    /\ UNCHANGED <<batch_idx, timestamps, sleep_left, progress_lock,
                   progress, issued, calls, woken, cancelled_in>>
    /\ UNCHANGED transformVars
    /\ UNCHANGED batcherVars
    /\ UNCHANGED shouldVars
    /\ UNCHANGED orchVars

\* `async with progress_lock: await on_update_progress(len(batch))` starts
DocEnterUpdate ==
    /\ pc[TheDoc] = "update"
    /\ progress_lock = 0
    /\ progress_lock' = TheDoc
    /\ progress' = [progress EXCEPT ![TheDoc] = @ + Len(LongBatch)]
    /\ pc' = [pc EXCEPT ![TheDoc] = "in_update"]
    /\ UNCHANGED <<batch_idx, parallel_semaphore, timestamps, sleep_left,
                   provider, attempt, issued, calls, woken, cancelled_in>>
    /\ UNCHANGED transformVars
    /\ UNCHANGED batcherVars
    /\ UNCHANGED shouldVars
    /\ UNCHANGED orchVars

\* on_update_progress returned; the loop goes to the next batch, the
\* locals of the finished process_paragraph_group call are gone
DocExitUpdate ==
    /\ pc[TheDoc] = "in_update"
    /\ progress_lock' = 0
    /\ IF batch_idx[TheDoc] < Len(LongBatches)
       THEN /\ batch_idx' = [batch_idx EXCEPT ![TheDoc] = @ + 1]
            /\ pc' = [pc EXCEPT ![TheDoc] = "acquire"]
       ELSE /\ pc' = [pc EXCEPT ![TheDoc] = "done"]
            /\ UNCHANGED batch_idx
    /\ TransformReset
    /\ decision' = "none"
    /\ UNCHANGED <<parallel_semaphore, timestamps, sleep_left, provider,
                   attempt, progress, issued, calls, woken, cancelled_in>>
    /\ UNCHANGED batcherVars
    /\ UNCHANGED <<s_paragraphs, decisions, s_start_index, spc, s_result>>
    /\ UNCHANGED orchVars

DocumentStep ==
    \/ AcquireSemaphore(TheDoc)
    \/ WaitForSlot(TheDoc)
    \/ Wake(TheDoc)
    \/ \E r \in DecideOutcomes : DocDecide(r)
    \/ TransformLoop
    \/ TransformRaise
    \/ \E k \in 0..(CHUNK_SIZE + 1) : TransformResponse(k)
    \/ DocFallback
    \/ DocTransformReturn
    \/ DocTransformFail
    \/ DocEnterUpdate
    \/ DocExitUpdate

DocumentNext ==
    \/ DocumentStep
    \/ Tick

\* the event loop resumes the task whenever it can go on, every exchange
\* ends, and the clock advances
DocumentSpec ==
    /\ DocumentInit
    /\ [][DocumentNext]_vars
    /\ WF_vars(DocumentStep)
    /\ WF_vars(Tick)

(* ----------------------------- EpubSpec -------------------------------- *)
(* transform_epub from its pre-scan on, driving the document tasks of      *)
(* Spec.  Docs are the EpubHtml items of the book; `unreadable` are those  *)
(* whose get_content / decode / parse raises in the pre-scan.              *)

\* the items the pre-scan has kept
Kept == { items_to_transform[i] : i \in DOMAIN items_to_transform }

EpubInit ==
    /\ pc = [t \in Docs |-> "not_created"]
    /\ batch_idx = [t \in Docs |-> 1]
    /\ parallel_semaphore = max_parallel
    /\ timestamps = <<>>
    /\ sleep_left = [t \in Docs |-> 0]
    /\ provider = [t \in Docs |-> "primary"]
    /\ attempt = [t \in Docs |-> 0]
    /\ progress_lock = 0
    /\ progress = [t \in Docs |-> 0]
    /\ issued = NoEvents
    /\ calls = Unobserved
    /\ woken = [t \in Docs |-> FALSE]
    /\ cancelled_in = [t \in Docs |-> "none"]
    /\ epc = "prescan"
    /\ unreadable \in SUBSET Docs
    /\ scan_idx = 1
    /\ total_paragraphs = 0
    /\ items_to_transform = <<>>
    /\ init_calls = 0
    /\ init_total = 0
    /\ complete_calls = 0
    /\ completed = <<>>
    /\ new_book = <<>>
    /\ BatcherIdle /\ TransformIdle /\ ShouldIdle

\* one pass of `for item in book.get_items()` on an EpubHtml item: its
\* paragraphs are counted and it is kept, or reading it raises and the
\* error is logged
PrescanItem ==
    /\ epc = "prescan"
    /\ scan_idx <= NumDocs
    /\ IF scan_idx \in unreadable
       THEN UNCHANGED <<total_paragraphs, items_to_transform>>
       ELSE /\ total_paragraphs' = total_paragraphs + CountParagraphs(scan_idx)
            /\ items_to_transform' = Append(items_to_transform, scan_idx)
    /\ scan_idx' = scan_idx + 1
    /\ UNCHANGED <<epc, unreadable, init_calls, init_total, complete_calls>>
    /\ UNCHANGED <<completed, new_book>>
    /\ UNCHANGED concVars
    /\ UNCHANGED batcherVars
    /\ UNCHANGED transformVars
    /\ UNCHANGED shouldVars

\* `await on_init_progress(total_paragraphs)` is entered
CallOnInit ==
    /\ epc = "prescan"
    /\ scan_idx > NumDocs
    /\ epc' = "init"
    /\ init_calls' = init_calls + 1
    /\ init_total' = total_paragraphs
    /\ UNCHANGED <<unreadable, scan_idx, total_paragraphs, items_to_transform,
                   complete_calls>>
    /\ UNCHANGED <<completed, new_book>>
    /\ UNCHANGED concVars
    /\ UNCHANGED batcherVars
    /\ UNCHANGED transformVars
    /\ UNCHANGED shouldVars

\* on_init_progress returned; one transform_item coroutine is created per
\* kept item and asyncio.gather starts them
StartGather ==
    /\ epc = "init"
    /\ epc' = "gather"
    /\ pc' = [t \in Docs |-> IF t \in Kept THEN "acquire" ELSE pc[t]]
    /\ UNCHANGED <<batch_idx, parallel_semaphore, timestamps, sleep_left,
                   provider, attempt, progress_lock, progress, issued, calls,
                   woken, cancelled_in>>
    /\ UNCHANGED <<unreadable, scan_idx, total_paragraphs, items_to_transform,
                   init_calls, init_total, complete_calls>>
    /\ UNCHANGED <<completed, new_book>>
    /\ UNCHANGED batcherVars
    /\ UNCHANGED transformVars
    /\ UNCHANGED shouldVars

\* the done callback gather attached to task t runs: its result is stored
Collect(t) ==
    /\ epc = "gather"
    /\ pc[t] = "done"
    /\ \A i \in DOMAIN completed : completed[i] # t
    /\ completed' = Append(completed, t)
    /\ UNCHANGED <<epc, unreadable, scan_idx, total_paragraphs,
                   items_to_transform, init_calls, init_total, complete_calls,
                   new_book>>
    /\ UNCHANGED concVars
    /\ UNCHANGED batcherVars
    /\ UNCHANGED transformVars
    /\ UNCHANGED shouldVars

\* every task has returned: gather returns and on_complete_progress is
\* called
GatherReturn ==
    /\ epc = "gather"
    /\ \A t \in Kept : \E i \in DOMAIN completed : completed[i] = t
    /\ epc' = "complete"
    /\ complete_calls' = complete_calls + 1
    /\ UNCHANGED <<unreadable, scan_idx, total_paragraphs, items_to_transform,
                   init_calls, init_total>>
    /\ UNCHANGED <<completed, new_book>>
    /\ UNCHANGED concVars
    /\ UNCHANGED batcherVars
    /\ UNCHANGED transformVars
    /\ UNCHANGED shouldVars

\* a task has raised: gather (return_exceptions is False) raises that
\* error in transform_epub, which has no handler; the other tasks are
\* left running
GatherRaise ==
    /\ epc = "gather"
    /\ \E t \in Kept : pc[t] = "failed"
    /\ epc' = "raised"
    /\ UNCHANGED <<unreadable, scan_idx, total_paragraphs, items_to_transform,
                   init_calls, init_total, complete_calls>>
    /\ UNCHANGED <<completed, new_book>>
    /\ UNCHANGED concVars
    /\ UNCHANGED batcherVars
    /\ UNCHANGED transformVars
    /\ UNCHANGED shouldVars

\* faulty variant: the results are taken in the order the tasks finished
GatherResultsAsCompleted == completed

\* `new_items = await asyncio.gather(*tasks)`: the results are in the order
\* of the awaitables, one per kept item
GatherResults == items_to_transform

\* the EpubHtml transform_item returns for item d: `uid=item.id`,
\* `file_name=item.file_name`, `content=new_content`
NewItem(d) == [id |-> d, content |-> "transformed"]

\* on_complete_progress returned; `for new_item in new_items:
\* new_book.add_item(new_item)` and the book is returned
EpubReturn ==
    /\ epc = "complete"
    /\ epc' = "returned"
    /\ new_book' = [i \in DOMAIN GatherResults |-> NewItem(GatherResults[i])]
    /\ UNCHANGED <<unreadable, scan_idx, total_paragraphs, items_to_transform,
                   init_calls, init_total, complete_calls, completed>>
    /\ UNCHANGED concVars
    /\ UNCHANGED batcherVars
    /\ UNCHANGED transformVars
    /\ UNCHANGED shouldVars

\* a step of a document task while transform_epub waits in gather
EpubTaskStep(t) ==
    /\ epc = "gather"
    /\ \/ AcquireSemaphore(t)
       \/ WaitForSlot(t)
       \/ Wake(t)
       \/ \E r \in DecideOutcomes : DecideResponse(t, r)
       \/ \E r \in RewriteOutcomes : RewriteResponse(t, r)
       \/ EnterUpdate(t)
       \/ ExitUpdate(t)

\* transform_epub has raised: asyncio.run (main.py line 67) cancels the
\* tasks that are still pending
Shutdown(t) ==
    /\ epc = "raised"
    /\ pc[t] # "not_created"
    /\ Cancel(t)

EpubNext ==
    \/ PrescanItem
    \/ CallOnInit
    \/ StartGather
    \/ \E t \in Docs : EpubTaskStep(t)
    \/ \E t \in Docs : Collect(t)
    \/ GatherReturn
    \/ GatherRaise
    \/ EpubReturn
    \/ \E t \in Docs : Shutdown(t)
    \/ Tick

EpubSpec == EpubInit /\ [][EpubNext]_vars

(* ---------------------------- ShouldSpec ------------------------------- *)
ShouldSpecInit ==
    ShouldInit /\ ConcIdle /\ BatcherIdle /\ TransformIdle /\ OrchIdle

ShouldNext ==
    \/ ShouldLoop
    \/ ShouldResponse

ShouldSpec == ShouldSpecInit /\ [][ShouldNext]_vars

(* ----------------------------- FairSpec -------------------------------- *)
(* The run without cancellation in which every protected section ends      *)
(* after its first exchange (the decision is "false" or fails): each       *)
(* holder releases its slot.  The event loop resumes every task that can   *)
(* go on, every exchange ends and the clock advances.                      *)
SectionEnds(t) == \E r \in {"false", "raise"} : DecideResponse(t, r)

TaskStep(t) ==
    \/ AcquireSemaphore(t)
    \/ WaitForSlot(t)
    \/ Wake(t)
    \/ SectionEnds(t)
    \/ EnterUpdate(t)
    \/ ExitUpdate(t)

FairNext ==
    \/ \E t \in Docs : AcquireSemaphore(t)
    \/ \E t \in Docs : WaitForSlot(t)
    \/ \E t \in Docs : Wake(t)
    \/ \E t \in Docs : SectionEnds(t)
    \/ \E t \in Docs : EnterUpdate(t)
    \/ \E t \in Docs : ExitUpdate(t)
    \/ Tick

FairSpec ==
    /\ Init
    /\ [][FairNext]_vars
    /\ WF_vars(Tick)
    /\ \A t \in Docs : WF_vars(TaskStep(t))

(* =============================== claims ================================ *)
IsSuffix(a, b) == \E k \in 0..Len(b) : a = SubSeq(b, k + 1, Len(b))
InFlight == { t \in Docs : pc[t] \in InBody }

\* C1: under any interleaving of the document tasks, the number of
\* concurrency slots held at the same time never exceeds max_parallel.
C1_SlotsBounded == Cardinality(Holders) <= max_parallel

\* all slots are held and a further task is waiting for one
C1_Witness ==
    /\ Cardinality(Holders) = max_parallel
    /\ \E t \in Docs : pc[t] = "acquire"

\* C2: no window of window_size ticks contains more than calls_per_minute
\* of the timestamps recorded by acquire(): at every instant the recorded
\* timestamps younger than window_size number at most calls_per_minute.
C2_SlidingWindow == Recent(issued) <= calls_per_minute

\* the window is full, its oldest timestamp has aged, and a task is kept
\* waiting for it to expire
C2_Witness ==
    /\ Recent(issued) = calls_per_minute
    /\ issued[0] = 0
    /\ \E t \in Docs : pc[t] = "sleep"

\* C3: counting every remote exchange (decide and rewrite requests, retries
\* and fallback requests included) as a call, at most calls_per_minute of
\* them start within any window and at most max_parallel are in flight.
C3_ExchangesBounded ==
    /\ Recent(calls) <= calls_per_minute
    /\ Cardinality(InFlight) <= max_parallel

\* C4: the slot taken for a batch is released on every exit path of the
\* protected section: the slots missing from the semaphore are exactly
\* those of the tasks inside acquire() or inside the section, so that once
\* every task has finished, failed or been cancelled no slot is held.
C4_SlotsReleased ==
    /\ parallel_semaphore = max_parallel - Cardinality(Holders)
    /\ (\A t \in Docs : pc[t] \in Terminal) => parallel_semaphore = max_parallel

\* all tasks are over: by completion, by an error of an exchange and by
\* cancellation after acquire() had returned
C4_Witness ==
    /\ \A t \in Docs : pc[t] \in Terminal
    /\ \E t \in Docs : pc[t] = "done"
    /\ \E t \in Docs : pc[t] = "failed"
    /\ \E t \in Docs : cancelled_in[t] = "other"

\* C5: a cancellation during the rate-window wait gives the slot back and
\* records no timestamp; a cancellation while waiting for the slot leaves
\* the slot count unchanged.
C5_AcquireFailure ==
    [][\A t \in Docs :
        /\ (pc[t] \in InWindowWait /\ pc'[t] = "cancelled")
             => /\ parallel_semaphore' = parallel_semaphore + 1
                /\ timestamps' = timestamps
                /\ issued' = issued
        /\ (pc[t] = "acquire" /\ pc'[t] = "cancelled")
             => /\ parallel_semaphore' = parallel_semaphore
                /\ timestamps' = timestamps
                /\ issued' = issued]_vars

\* one task was cancelled while sleeping for the window, another while
\* waiting for the semaphore
C5_Witness ==
    /\ \E t \in Docs : cancelled_in[t] = "window"
    /\ \E t \in Docs : cancelled_in[t] = "semaphore"

\* C6: when acquire() returns the task holds one slot and one timestamp of
\* age 0 has been appended to the queue; leaving the protected section
\* returns one slot and leaves the queue and the recorded timestamps as
\* they are.
C6_AcquireReleaseEffect ==
    [][\A t \in Docs :
        /\ (pc[t] = "wait_for_slot" /\ pc'[t] = "decide")
             => /\ timestamps' # <<>>
                /\ timestamps'[Len(timestamps')] = 0
                /\ IsSuffix(SubSeq(timestamps', 1, Len(timestamps') - 1), timestamps)
                /\ Recent(issued') = Recent(issued) + 1
                /\ parallel_semaphore' = max_parallel - Cardinality(Holders')
        /\ (pc[t] \in InBody /\ pc'[t] \notin InBody)
             => /\ parallel_semaphore' = parallel_semaphore + 1
                /\ timestamps' = timestamps
                /\ issued' = issued]_vars

\* every slot has been released while a recorded timestamp is still inside
\* the window and keeps a later task waiting
C6_Witness ==
    /\ parallel_semaphore = max_parallel - 1
    /\ Recent(issued) >= 1
    /\ \E t \in Docs : pc[t] \in {"update", "in_update", "done", "failed"}
    /\ \E t \in Docs : pc[t] = "sleep"

\* C7: each call of acquire() eventually returns.
C7_NoStarvation ==
    \A t \in Docs : (pc[t] \in {"acquire"} \cup InWindowWait) ~> (pc[t] = "decide")

\* a task woke up, found the window taken by another waiter and sleeps again
C7_Witness == \E t \in Docs : pc[t] = "sleep" /\ woken[t]

\* the stripped text of a unit is non-empty and ends in '.', '?' or '!'
EndsSentence(unit) ==
    LET text == strip(unit)
    IN  text # <<>> /\ text[Len(text)] \in {".", "?", "!"}

\* position in the input of the last unit of the m-th batch
RECURSIVE EndOfBatch(_, _)
EndOfBatch(gs, m) == IF m = 0 THEN 0 ELSE EndOfBatch(gs, m - 1) + Len(gs[m])

NonFinalEnds(gs) == { EndOfBatch(gs, m) : m \in 1..(Len(gs) - 1) }

\* C8: the batches partition the input: concatenated in order they give
\* the input sequence, no batch is empty, and an empty input gives no batch.
C8_Partition ==
    bpc = "returned" =>
        /\ Concat(groups) = p_tags
        /\ \A k \in 1..Len(groups) : groups[k] # <<>>
        /\ (p_tags = <<>> => groups = <<>>)

\* an input of full length split into several batches, the last of which
\* is the leftover after the final boundary
C8_Witness ==
    /\ bpc = "returned"
    /\ Len(p_tags) = MaxUnits
    /\ Len(groups) >= 2
    /\ ~EndsSentence(p_tags[Len(p_tags)])

\* C9 as stated: a unit is the last unit of a non-final batch if and only
\* if its stripped text is non-empty and ends in '.', '?' or '!'.
C9_BreaksIffBoundary ==
    bpc = "returned" =>
        \A i \in 1..Len(p_tags) :
            (i \in NonFinalEnds(groups)) <=> EndsSentence(p_tags[i])

\* C9 amended: a unit is the last unit of a non-final batch if and only if
\* its stripped text is non-empty and ends in '.', '?' or '!' and it is not
\* the last unit of the input (a boundary unit at the very end closes the
\* final batch).
C9_BreaksIffInnerBoundary ==
    bpc = "returned" =>
        \A i \in 1..Len(p_tags) :
            (i \in NonFinalEnds(groups))
                <=> (EndsSentence(p_tags[i]) /\ i < Len(p_tags))

\* a batch is closed after a unit whose punctuation is followed by
\* whitespace, a unit with blank text stays inside a batch, and the input
\* ends with a boundary unit
C9_Witness ==
    /\ bpc = "returned"
    /\ Len(groups) >= 2
    /\ \E i \in 1..(Len(p_tags) - 1) :
          EndsSentence(p_tags[i]) /\ p_tags[i][Len(p_tags[i])] \in Whitespace
    /\ \E i \in 1..Len(p_tags) : strip(p_tags[i]) = <<>>
    /\ EndsSentence(p_tags[Len(p_tags)])

\* first unit of the chunk of the batch that unit i belongs to
ChunkStart(i) == ((i - 1) \div CHUNK_SIZE) * CHUNK_SIZE + 1

\* C10: when transform_content returns without error every chunk has been
\* processed: each non-empty unit of the batch holds the replacement, at
\* its rank among the non-empty units of its chunk, of an accepted response
\* for that chunk -- also when an earlier chunk needed mismatch retries.
C10_AllChunksProcessed ==
    tpc = "returned" =>
        \A i \in 1..Len(batch) :
            inner_html(batch[i].html) # <<>> =>
                \E a \in accepted :
                    /\ a.lo = ChunkStart(i)
                    /\ units[i].call = a.call
                    /\ units[i].idx = Len(MeaningfulIn(batch, ChunkStart(i), i))

\* C11: a chunk is sent at most 3 times: a third response whose count
\* still differs raises the terminal mismatch error, so no fourth request
\* is posted for the chunk.
C11_ThreeSendsAtMost ==
    /\ chunk_sends <= 3
    /\ (raised_by = "mismatch" => chunk_sends = 3)

\* C12: the attempt counter is 0 at the first request of a chunk and one
\* more at each further request for it, changes only by a mismatch retry
\* adding exactly 1, never exceeds 3, and is exactly 3 when the terminal
\* mismatch error is raised.
C12_AttemptCounter ==
    /\ [](/\ t_attempt \in 0..3
          /\ (tpc = "await" => t_attempt = chunk_sends - 1)
          /\ (raised_by = "mismatch" => t_attempt = 3))
    /\ [][t_attempt' # t_attempt =>
            /\ t_attempt' = t_attempt + 1
            /\ tpc = "await" /\ tpc' = "loop"
            /\ units' = units /\ accepted' = accepted]_vars

\* a chunk after the first one has failed on its last allowed attempt
C12_Witness ==
    /\ raised_by = "mismatch"
    /\ t_attempt = 3
    /\ accepted # {}

\* C13: a chunk accepted at its third request (two mismatched responses
\* before) raises no error, and each of its non-empty units holds, at its
\* rank among them, the item of that third response; its blank units are
\* untouched.
C13_ThirdAttemptAccepted ==
    \A a \in accepted :
        a.sends = 3 =>
            /\ tpc # "raised"
            /\ \A i \in a.lo..a.hi :
                  IF inner_html(batch[i].html) # <<>>
                  THEN units[i] = Replacement(a.call, Len(MeaningfulIn(batch, a.lo, i)))
                  ELSE units[i] = batch[i]

\* the call has returned after accepting, at the third request, a chunk
\* with a blank unit between two non-empty ones
C13_Witness ==
    /\ tpc = "returned"
    /\ \E a \in accepted :
          /\ a.sends = 3
          /\ \E i, j, k \in a.lo..a.hi :
                /\ i < j /\ j < k
                /\ inner_html(batch[i].html) # <<>>
                /\ inner_html(batch[j].html) = <<>>
                /\ inner_html(batch[k].html) # <<>>

\* C16: should_transform returns true when the decision of any chunk of
\* the batch is true, and returns false only when the decision of every
\* chunk is false.
C16_AnyChunkDecides ==
    spc = "returned" =>
        /\ (\E c \in DOMAIN decisions : decisions[c] = "true")
              => s_result = "True"
        /\ s_result = "False"
              => \A c \in DOMAIN decisions : decisions[c] = "false"

\* number of units in the first n batches of bs
RECURSIVE LenSum(_, _)
LenSum(bs, n) == IF n = 0 THEN 0 ELSE LenSum(bs, n - 1) + Len(bs[n])

\* C14: transform_content is called for a batch with the primary provider
\* and, only after that call raised, exactly once more with the secondary
\* one; an error leaves the batch's processing only after the secondary
\* call raised too, and then nothing further is tried and no update is
\* recorded for the batch; the block is left normally only after a call
\* returned.
C14_FallbackOnce ==
    /\ started \in {<<>>, <<"primary">>, <<"primary", "secondary">>}
    /\ (tpc = "raised" /\ t_provider = "primary") => pc[TheDoc] = "transform"
    /\ (pc[TheDoc] = "failed" /\ started # <<>>)
          => /\ started = <<"primary", "secondary">>
             /\ tpc = "raised"
             /\ t_provider = "secondary"
    /\ pc[TheDoc] = "failed"
          => progress[TheDoc] = LenSum(LongBatches, batch_idx[TheDoc] - 1)
    /\ (pc[TheDoc] \in {"update", "in_update"} /\ started # <<>>)
          => tpc = "returned"

\* the primary call rewrote the first chunk and then raised, the secondary
\* call raised too, and the error has left the batch's processing
C14_Witness ==
    /\ pc[TheDoc] = "failed"
    /\ started = <<"primary", "secondary">>
    /\ \E a \in accepted : a.provider = "primary"

\* the primary call never had a matching response and raised, the
\* secondary call had only matching ones and returned
FellBackClean ==
    /\ started = <<"primary", "secondary">>
    /\ tpc = "returned"
    /\ accepted # {}
    /\ \A a \in accepted : a.provider = "secondary" /\ a.sends = 1

\* the batch in hand is handled: its update is recorded and the task is
\* past acquire() for the next batch, or done after the last one
BatchHandled(n) ==
    /\ progress[TheDoc] >= LenSum(LongBatches, n)
    /\ IF n < Len(LongBatches)
       THEN batch_idx[TheDoc] = n + 1 /\ pc[TheDoc] = "decide"
       ELSE pc[TheDoc] = "done"

\* C15: when the primary provider never returns a matching count and the
\* secondary provider returns matching counts, every non-empty unit of the
\* batch holds the secondary provider's replacement (blank units are
\* untouched), no error leaves the pipeline, the update of the batch is
\* recorded and the next batch is taken up.
C15_FallbackCompletes ==
    /\ [](FellBackClean =>
            \A i \in 1..Len(batch) :
                IF inner_html(batch[i].html) # <<>>
                THEN \E a \in accepted :
                        /\ a.provider = "secondary"
                        /\ a.lo = ChunkStart(i)
                        /\ units[i] = Replacement(a.call,
                                         Len(MeaningfulIn(batch, ChunkStart(i), i)))
                ELSE units[i] = batch[i])
    /\ \A n \in 1..Len(LongBatches) :
          (batch_idx[TheDoc] = n /\ pc[TheDoc] = "transform" /\ FellBackClean)
              ~> BatchHandled(n)

\* the primary provider answered all four requests for the first chunk
\* with a wrong count, the secondary rewrote both chunks of the batch, and
\* the update of the batch is being recorded
C15_Witness ==
    /\ pc[TheDoc] = "in_update"
    /\ FellBackClean
    /\ Len(batch) > CHUNK_SIZE
    /\ Cardinality(accepted) = 2
    /\ \E a \in accepted : a.call = MAX_ATTEMPT + 2

\* C17: the progress of a document changes only when one of its batches
\* reaches its update, then by that batch's number of units (blank units
\* and batches decided "false" included) and once per batch, so it never
\* decreases, never exceeds the document's number of units, and equals it
\* once all batches are complete -- whatever the sibling tasks do.
C17_ProgressSums ==
    /\ [](\A t \in Docs :
            /\ progress[t] <= Len(DocContent(t))
            /\ pc[t] = "done" => progress[t] = Len(DocContent(t)))
    /\ [][\A t \in Docs :
            /\ progress'[t] >= progress[t]
            /\ progress'[t] # progress[t] =>
                  /\ pc[t] = "update" /\ pc'[t] = "in_update"
                  /\ progress'[t] = progress[t] + Len(batches(t)[batch_idx[t]])
            /\ (pc[t] = "update" /\ pc'[t] \notin {"update", "cancelled"})
                  => progress'[t] # progress[t]
            /\ batch_idx'[t] # batch_idx[t] => pc[t] = "in_update"]_vars

\* the two-batch document and the blank document are complete while the
\* third task is still inside a protected section
C17_Witness ==
    /\ pc[1] = "done" /\ progress[1] = 2
    /\ pc[NumDocs] = "done" /\ progress[NumDocs] = 1
    /\ \E t \in Docs : pc[t] \in InBody

\* C18: a task works on one batch at a time, in document order: the batch
\* index only moves to the next batch, from the recorded update of the
\* batch in hand, and while batch n+1 waits for its slot, holds it or has
\* an exchange in flight, the updates recorded are exactly those of the
\* batches 1..n.
C18_BatchOrder ==
    /\ [](\A t \in Docs :
            pc[t] \in {"acquire"} \cup InWindowWait \cup InBody
                => progress[t] = LenSum(batches(t), batch_idx[t] - 1))
    /\ [][\A t \in Docs :
            batch_idx'[t] # batch_idx[t] =>
                /\ batch_idx'[t] = batch_idx[t] + 1
                /\ pc[t] = "in_update" /\ pc'[t] = "acquire"
                /\ progress[t] = LenSum(batches(t), batch_idx[t])]_vars

\* the second batch of a document has its rewrite request in flight while
\* a sibling is recording an update
C18_Witness ==
    /\ \E t \in Docs : batch_idx[t] = 2 /\ pc[t] = "transform"
    /\ \E t \in Docs : pc[t] = "in_update"

\* sum of f over 1..n
RECURSIVE SumTo(_, _)
SumTo(f, n) == IF n = 0 THEN 0 ELSE f[n] + SumTo(f, n - 1)

\* number of units of the documents that are read without error
ReadableUnits ==
    SumTo([d \in Docs |-> IF d \in unreadable THEN 0 ELSE Len(DocContent(d))],
          NumDocs)

\* C19: on_init_progress is called once, with the number of units of all
\* the documents that get a task, before any task exists (so before any
\* slot is taken, any request posted or any update recorded), and when the
\* run returns the updates recorded sum to that number.
C19_InitOnceBeforeWork ==
    /\ init_calls <= 1
    /\ epc \in {"prescan", "init"}
          => /\ \A t \in Docs : pc[t] = "not_created" /\ progress[t] = 0
             /\ parallel_semaphore = max_parallel
             /\ issued = NoEvents
    /\ epc # "prescan"
          => /\ init_calls = 1
             /\ init_total = ReadableUnits
             /\ \A t \in Docs : pc[t] = "not_created" <=> t \in unreadable
                                                          \/ epc = "init"
    /\ epc = "returned" => SumTo(progress, NumDocs) = init_total

\* a run that skipped an unreadable document has returned after
\* transforming the others
C19_Witness ==
    /\ epc = "returned"
    /\ unreadable # {}
    /\ init_total > 0
    /\ SumTo(progress, NumDocs) = init_total

\* C20: on_complete_progress is called exactly once per run, after all
\* document tasks have settled, whether they all succeeded or some failed.
C20_CompleteOnce ==
    /\ complete_calls <= 1
    /\ complete_calls = 1 => \A t \in Kept : pc[t] \in Terminal
    /\ epc \in {"returned", "raised"} => complete_calls = 1


\* C21 (EpubSpec): an item that cannot be read in the pre-scan is in the
\* returned book, copied as it was; the run is not aborted because of it
\* and its paragraphs are not in the total given to on_init_progress.
C21_UnreadableCopied ==
    epc = "returned" =>
        /\ \A d \in unreadable :
              \E i \in DOMAIN new_book :
                  new_book[i] = [id |-> d, content |-> "original"]
        /\ init_total = ReadableUnits

\* C22 (EpubSpec): when transform_epub has ended, by returning or by
\* raising, every document whose task returned is in the book it
\* delivers, transformed.
C22_SuccessfulDelivered ==
    epc \in {"returned", "raised"} =>
        \A d \in Kept :
            pc[d] = "done" =>
                \E i \in DOMAIN new_book : new_book[i] = NewItem(d)

\* C23 (EpubSpec): in the returned book the transformed documents stand in
\* the order of the input items, whatever the order in which the tasks
\* finished, one per readable item and each under the id of its item.
C23_InputOrder ==
    epc = "returned" =>
        /\ Len(new_book) = Cardinality(Docs \ unreadable)
        /\ \A i \in DOMAIN new_book :
              /\ new_book[i].id \in Docs \ unreadable
              /\ new_book[i].content = "transformed"
        /\ \A i, j \in DOMAIN new_book :
              i < j => new_book[i].id < new_book[j].id

\* the book was returned after a later item's task finished first
C23_Witness ==
    /\ epc = "returned"
    /\ Len(completed) >= 2
    /\ completed[1] > completed[2]


\* the chunks that reached a terminal state, with the provider of the call
TerminalChunks ==
    { [lo |-> a.lo, provider |-> a.provider] : a \in accepted }
        \cup { [lo |-> f.lo, provider |-> f.provider] : f \in mismatch_failed }

NonEmptyUnits(lo, hi) == { i \in lo..hi : strip(batch[i].html) # <<>> }

\* C25 (TransformSpec): a unit whose stripped content is empty is never
\* modified; a request is posted only for a chunk with a non-empty unit;
\* an accepted response has as many items as its chunk has non-empty
\* units, and the i-th of them holds the i-th item.
C25_EmptyUnitsSkipped ==
    /\ \A i \in DOMAIN batch :
          strip(batch[i].html) = <<>> => units[i] = batch[i]
    /\ tpc = "await" => NonEmptyUnits(ChunkLo, ChunkHi) # {}
    /\ \A a \in accepted :
          /\ a.items = Cardinality(NonEmptyUnits(a.lo, a.hi))
          /\ \A i \in NonEmptyUnits(a.lo, a.hi) :
                units[i] = Replacement(a.call, Cardinality(NonEmptyUnits(a.lo, i)))

\* the call returned after one request: the first chunk, with a blank unit
\* between non-empty ones, was accepted and the second chunk had only a
\* blank unit
C25_Witness ==
    /\ tpc = "returned"
    /\ Len(batch) > CHUNK_SIZE
    /\ NonEmptyUnits(CHUNK_SIZE + 1, Len(batch)) = {}
    /\ ncalls = 1
    /\ \E a \in accepted :
          /\ a.lo = 1
          /\ a.items = CHUNK_SIZE - 1
          /\ \E i \in 2..(CHUNK_SIZE - 1) : strip(batch[i].html) = <<>>


\* the tasks inside on_update_progress
InUpdate == { t \in Docs : pc[t] = "in_update" }

\* C26 (Spec): at most one task is inside on_update_progress, and it is
\* the holder of the progress lock; the holder of the progress lock is
\* not in the limiter: it holds no slot and is not in _wait_for_slot,
\* where alone the limiter's own lock is taken.
C26_UpdateExclusive ==
    /\ Cardinality(InUpdate) <= 1
    /\ \A t \in Docs : pc[t] = "in_update" <=> progress_lock = t
    /\ \A t \in InUpdate : t \notin Holders /\ pc[t] \notin InWindowWait

\* one task is inside on_update_progress while another waits for the
\* progress lock and a third is in the loop of _wait_for_slot
C26_Witness ==
    \E t, u, v \in Docs :
        /\ pc[t] = "in_update"
        /\ pc[u] = "update"
        /\ pc[v] \in InWindowWait


\* C27 (DocumentSpec): when the should_transform call of a batch has
\* failed, the task has failed with its slot released; no transform_content
\* call was made for the batch, by either provider, and no request of one
\* was posted; no unit was given to one or modified; no update was
\* recorded for the batch and the task stays at that batch.
C27_DecisionFailurePropagates ==
    decision = "raise" =>
        /\ pc[TheDoc] = "failed"
        /\ parallel_semaphore = max_parallel
        /\ TheDoc \notin Holders
        /\ started = <<>>
        /\ ncalls = 0
        /\ tpc = "idle"
        /\ units = <<>>
        /\ progress_lock = 0
        /\ progress[TheDoc] = LenSum(LongBatches, batch_idx[TheDoc] - 1)

\* the decision call of a batch that is not the last one has failed
C27_Witness ==
    /\ decision = "raise"
    /\ pc[TheDoc] = "failed"
    /\ batch_idx[TheDoc] < Len(LongBatches)


\* the tasks that have not finished
Unfinished == { t \in Docs : pc[t] \notin {"done", "failed"} }

\* no task holds more than one slot, a task that waits for the progress
\* lock or holds it holds no slot, and while a task is unfinished some
\* task can take a step, at once or when a sleep has run out
C28_CanStep ==
    /\ parallel_semaphore + Cardinality(Holders) = max_parallel
    /\ \A t \in Docs : pc[t] \in {"update", "in_update"} => t \notin Holders
    /\ Unfinished # {} =>
          \/ \E t \in Docs : ENABLED TaskStep(t)
          \/ \E t \in Docs : pc[t] = "sleep" /\ sleep_left[t] > 0

====
